---- MODULE Spec2Model ----
(***************************************************************************)
(* Model of src/main.py: the Logstash (Docker) startup-time measurement    *)
(* script.  One sequential control flow: check_docker, then for every      *)
(* entry of JVM_OPTIONS_SETS a call of measure_startup_time, which builds  *)
(* the docker command, runs NUM_RUNS timed trials and reports statistics.  *)
(*                                                                         *)
(* Representation choices:                                                 *)
(*  - an optional string (str | None) is a record [isNone, val];           *)
(*  - a duration (float seconds) is a positive integer number of ticks;    *)
(*  - a float computed by a division is the exact fraction <<num, den>>;   *)
(*  - std_dev is held as its square (the radicand of the square root);     *)
(*  - a library call that can raise returns [exc, val], exc = "" meaning   *)
(*    that it returned normally;                                           *)
(*  - the process exit code is <<>> while the process runs and <<n>> once  *)
(*    it has ended with code n.                                            *)
(***************************************************************************)
EXTENDS Integers, Sequences, FiniteSets, TLC

\* ------------------------------------------------------------------ bounds

\* Durations measured by time.perf_counter() are drawn from 1..MaxDuration.
MaxDuration == 2

\* Longest duration list handed to the statistics reporter in StatsSpec.
StatsMaxLen == 5

\* --------------------------------------------------------------- constants

LOGSTASH_DOCKER_IMAGE == "docker.elastic.co/logstash/logstash:8.17.4"

NUM_RUNS == 10

LOGSTASH_PIPELINE_CONFIG == "input { stdin {} } filter {} output { stdout {} }"

None == [isNone |-> TRUE, val |-> ""]

Str(s) == [isNone |-> FALSE, val |-> s]

\* The two labels are the source's Japanese labels in English (they are only
\* printed).
JVM_OPTIONS_SETS ==
    << <<None, "1. baseline">>,
       <<Str("-Djruby.compile.invokedynamic=false -Djruby.compile.mode=OFF -XX:+TieredCompilation -XX:TieredStopAtLevel=1"),
         "2. with options">> >>

Configs == 1..Len(JVM_OPTIONS_SETS)

\* ------------------------------------------------------------------ inputs

\* What `docker info` can do: exit 0, be missing from PATH, exit non-zero,
\* or fail to start for another reason (e.g. PermissionError).
DockerInfoOutcomes == {"ok", "FileNotFoundError", "CalledProcessError", "OSError"}

\* What one `docker run` trial can do: exit 0, exit non-zero, or raise
\* anything else derived from Exception.
TrialOutcomes == {"ok", "CalledProcessError", "Exception"}

Durations == 1..MaxDuration

\* Arguments measure_startup_time is called with in MeasureSpec.
JvmOptsInputs == {None, Str(""), JVM_OPTIONS_SETS[2][1]}

DescriptionInputs == {JVM_OPTIONS_SETS[2][2]}

\* ------------------------------------------------------------------- state

VARIABLES
    pc,            \* position of the script
    exit_code,     \* <<>> while running, <<n>> after the process ended
    docker,        \* outcome of `docker info`, "unchecked" before it ran
    cfg,           \* index of the current entry of JVM_OPTIONS_SETS
    description,   \* measure_startup_time: argument
    jvm_opts,      \* measure_startup_time: argument
    base_command,  \* measure_startup_time: local
    i,             \* measure_startup_time: loop variable
    durations,     \* measure_startup_time: local
    stats,         \* measure_startup_time: min_time, max_time, avg_time, std_dev
    launched,      \* latest call: number of `docker run` launched
    succ,          \* latest call: number of trials that succeeded
    failedAt,      \* latest call: index of the failing trial, 0 if none
    failedWith,    \* latest call: what the failing trial raised, "" if none
    waits,         \* latest call: number of time.sleep(1) performed
    slept,         \* latest call: seconds spent in time.sleep
    printed,       \* latest call: what its report printed
    cmdsUsed,      \* latest call: the commands handed to subprocess.run
    started,       \* configurations in the order of their first launch
    earlierFailed  \* a call before the latest one ended on a failed trial

vars == <<pc, exit_code, docker, cfg, description, jvm_opts, base_command, i,
          durations, stats, launched, succ, failedAt, failedWith, waits, slept,
          printed, cmdsUsed, started, earlierFailed>>

locals == <<description, jvm_opts, base_command, i, durations, stats>>

history == <<launched, succ, failedAt, failedWith, waits, slept, printed,
             cmdsUsed, started, earlierFailed>>

\* --------------------------------------------------------- pure functions

Ok(v) == [exc |-> "", val |-> v]

Raise(e, v) == [exc |-> e, val |-> v]

\* check_docker with the daemon's refusal (`docker info` exiting non-zero)
\* taken for success.
check_docker_DaemonIgnored(outcome) ==
    CASE outcome = "ok" -> "True"
      [] outcome = "FileNotFoundError" -> "False"
      [] outcome = "CalledProcessError" -> "True"
      [] OTHER -> "raise"

\* check_docker(): the value it returns for each behaviour of `docker info`;
\* "raise" when the exception is none of the two it catches.
check_docker(outcome) ==
    CASE outcome = "ok" -> "True"
      [] outcome = "FileNotFoundError" -> "False"
      [] outcome = "CalledProcessError" -> "False"
      [] OTHER -> "raise"

\* `if jvm_opts is not None:` in place of `if jvm_opts:`.
Truthy_NotNone(opts) == ~opts.isNone

\* Python truth value of an optional string: `if jvm_opts:`.
Truthy(opts) == ~opts.isNone /\ opts.val # ""

\* Lines 52-60: the argument vector of one trial.
BuildCommand(opts) ==
    LET base == <<"docker", "run", "--rm", "-i">>
        env  == IF Truthy(opts)
                THEN base \o <<"-e", "LS_JAVA_OPTS=" \o opts.val>>
                ELSE base
    IN  (env \o <<LOGSTASH_DOCKER_IMAGE>>) \o <<"-e", LOGSTASH_PIPELINE_CONFIG>>

\* sum(): the elements added up from the first to the last.
Sum(xs) ==
    LET partial[k \in 0..Len(xs)] ==
            IF k = 0 THEN 0 ELSE partial[k - 1] + xs[k]
    IN  partial[Len(xs)]

Range(xs) == {xs[k] : k \in 1..Len(xs)}

\* min() that never looks past the first element.
min_First(xs) == IF xs = <<>> THEN Raise("ValueError", 0) ELSE Ok(xs[1])

\* builtin min(): ValueError on an empty sequence, else its least element.
min_(xs) ==
    IF xs = <<>> THEN Raise("ValueError", 0)
    ELSE Ok(CHOOSE m \in Range(xs) : \A x \in Range(xs) : m <= x)

\* builtin max(): ValueError on an empty sequence, else its greatest element.
max_(xs) ==
    IF xs = <<>> THEN Raise("ValueError", 0)
    ELSE Ok(CHOOSE m \in Range(xs) : \A x \in Range(xs) : m >= x)

\* statistics.mean(): StatisticsError on no data, else sum / n.
mean(xs) ==
    IF Len(xs) < 1 THEN Raise("StatisticsError", <<0, 1>>)
    ELSE Ok(<<Sum(xs), Len(xs)>>)

\* With S the sum of xs and n its length: the sum over xs of (n * x - S)^2,
\* which is n^2 times the sum of the squared deviations from the mean S / n.
SumSqDev(xs, S) ==
    Sum([k \in 1..Len(xs) |->
            (Len(xs) * xs[k] - S) * (Len(xs) * xs[k] - S)])

\* statistics.stdev(): StatisticsError on fewer than two data points, else
\* sqrt(ss / (n - 1)) with ss the sum of the squared deviations from the
\* mean.  The value is the radicand ss / (n - 1) as a fraction.
stdev(xs) ==
    IF Len(xs) < 2 THEN Raise("StatisticsError", <<0, 1>>)
    ELSE Ok(CHOOSE v \in {<<SumSqDev(xs, S), Len(xs) * Len(xs) * (Len(xs) - 1)>> :
                            S \in {Sum(xs)}} : TRUE)

\* The emptiness check left out.
NoValidData_Never(ds) == FALSE

\* Line 98: `if not durations`.
NoValidData(ds) == ds = <<>>

\* `if len(durations) > 0` in place of `> 1`.
UseStdev_NonEmpty(ds) == Len(ds) > 0

\* Line 106: `if len(durations) > 1`.
UseStdev(ds) == Len(ds) > 1

\* The float literal 0.0 of line 106.
Zero == <<0, 1>>

NoStats == [min_time |-> 0, max_time |-> 0, avg_time |-> Zero, std_dev |-> Zero]

\* ---------------------------------------------------------- initial states

NoReport == [kind |-> "none", count |-> 0]

\* Nothing recorded about the latest call.
NoCall ==
    /\ launched = 0
    /\ succ = 0
    /\ failedAt = 0
    /\ failedWith = ""
    /\ waits = 0
    /\ slept = 0
    /\ printed = NoReport
    /\ cmdsUsed = {}

NoFrame ==
    /\ description = ""
    /\ jvm_opts = None
    /\ base_command = <<>>
    /\ i = 0
    /\ durations = <<>>
    /\ stats = NoStats

\* The process as it is started: before line 120.
Init ==
    /\ pc = "main"
    /\ exit_code = <<>>
    /\ docker = "unchecked"
    /\ cfg = 0
    /\ NoFrame
    /\ NoCall
    /\ started = <<>>
    /\ earlierFailed = FALSE

\* ------------------------------------------------------------------ __main__

\* Lines 120-124: the banner, check_docker() and sys.exit(1).  An exception
\* check_docker does not catch ends the process with a traceback and code 1.
Main_CheckDocker ==
    /\ pc = "main"
    /\ \E outcome \in DockerInfoOutcomes :
          /\ docker' = outcome
          /\ CASE check_docker(outcome) = "True" ->
                    pc' = "loop" /\ exit_code' = exit_code
               [] check_docker(outcome) = "False" ->
                    pc' = "exit" /\ exit_code' = <<1>>
               [] OTHER ->
                    pc' = "crashed" /\ exit_code' = <<1>>
    /\ UNCHANGED <<cfg, locals, history>>

\* Lines 135-136: the next (opts, desc) of JVM_OPTIONS_SETS and the call.
Main_CallMeasure ==
    /\ pc = "loop"
    /\ cfg < Len(JVM_OPTIONS_SETS)
    /\ cfg' = cfg + 1
    /\ jvm_opts' = JVM_OPTIONS_SETS[cfg + 1][1]
    /\ description' = JVM_OPTIONS_SETS[cfg + 1][2]
    /\ pc' = "entry"
    /\ earlierFailed' = (earlierFailed \/ failedAt # 0)
    /\ launched' = 0
    /\ succ' = 0
    /\ failedAt' = 0
    /\ failedWith' = ""
    /\ waits' = 0
    /\ slept' = 0
    /\ printed' = NoReport
    /\ cmdsUsed' = {}
    /\ UNCHANGED <<exit_code, docker, base_command, i, durations, stats, started>>

\* Line 138: the loop is exhausted, the completion message, exit code 0.
Main_Finish ==
    /\ pc = "loop"
    /\ cfg >= Len(JVM_OPTIONS_SETS)
    /\ pc' = "done"
    /\ exit_code' = <<0>>
    /\ UNCHANGED <<docker, cfg, locals, history>>

\* ------------------------------------------------------ measure_startup_time

\* `return`: back in the for loop of __main__, the frame is gone.
Return ==
    /\ pc' = "loop"
    /\ description' = ""
    /\ jvm_opts' = None
    /\ base_command' = <<>>
    /\ i' = 0
    /\ durations' = <<>>
    /\ stats' = NoStats

\* range(1, NUM_RUNS + 1) yields k, or is exhausted.
LoopPc(k) == IF k <= NUM_RUNS THEN "trial" ELSE "report"

\* Lines 42-62: the empty list, the header, the command, the first index.
Measure_Setup ==
    /\ pc = "entry"
    /\ durations' = <<>>
    /\ base_command' = BuildCommand(jvm_opts)
    /\ i' = 1
    /\ pc' = LoopPc(1)
    /\ UNCHANGED <<exit_code, docker, cfg, description, jvm_opts, stats, history>>

\* Lines 79-84: the run exited 0, its duration is appended.
TrialOk(d) ==
    /\ durations' = Append(durations, d)
    /\ succ' = succ + 1
    /\ pc' = "sleep"
    /\ UNCHANGED <<exit_code, failedAt, failedWith, description, jvm_opts,
                   base_command, i, stats>>

\* The handlers with `continue` in place of `return`.
TrialFailed_Continue(outcome) ==
    /\ failedAt' = IF failedAt = 0 THEN i ELSE failedAt
    /\ failedWith' = IF failedAt = 0 THEN outcome ELSE failedWith
    /\ pc' = "sleep"
    /\ UNCHANGED <<exit_code, succ, locals>>

\* The handlers with `break` in place of `return`.
TrialFailed_Break(outcome) ==
    /\ failedAt' = i
    /\ failedWith' = outcome
    /\ pc' = "report"
    /\ UNCHANGED <<exit_code, succ, locals>>

\* The handlers with `sys.exit(1)` in place of `return`.
TrialFailed_Exit(outcome) ==
    /\ failedAt' = i
    /\ failedWith' = outcome
    /\ pc' = "exit"
    /\ exit_code' = <<1>>
    /\ UNCHANGED <<succ, locals>>

\* The second handler (`except Exception`) left out.
TrialFailed_Uncaught(outcome) ==
    /\ failedAt' = i
    /\ failedWith' = outcome
    /\ IF outcome = "CalledProcessError"
       THEN Return /\ UNCHANGED exit_code
       ELSE pc' = "crashed" /\ exit_code' = <<1>> /\ UNCHANGED locals
    /\ UNCHANGED succ

\* Lines 86-93: both handlers print and return.
TrialFailed(outcome) ==
    /\ failedAt' = i
    /\ failedWith' = outcome
    /\ Return
    /\ UNCHANGED <<exit_code, succ>>

\* Lines 63-93: one trial, `docker run` with check=True.
Measure_Trial ==
    /\ pc = "trial"
    /\ launched' = launched + 1
    /\ cmdsUsed' = cmdsUsed \cup {base_command}
    /\ started' = IF launched = 0 THEN Append(started, cfg) ELSE started
    /\ \E outcome \in TrialOutcomes, d \in Durations :
          IF outcome = "ok" THEN TrialOk(d) ELSE TrialFailed(outcome)
    /\ UNCHANGED <<docker, cfg, waits, slept, printed, earlierFailed>>

\* The loop going on to the next index without time.sleep(1).
Measure_Sleep_NoWait ==
    /\ pc = "sleep"
    /\ i' = i + 1
    /\ pc' = LoopPc(i + 1)
    /\ UNCHANGED <<exit_code, docker, cfg, description, jvm_opts, base_command,
                   durations, stats, history>>

\* Line 96 and the next index of line 62.
Measure_Sleep ==
    /\ pc = "sleep"
    /\ waits' = waits + 1
    /\ slept' = slept + 1
    /\ i' = i + 1
    /\ pc' = LoopPc(i + 1)
    /\ UNCHANGED <<exit_code, docker, cfg, description, jvm_opts, base_command,
                   durations, stats, launched, succ, failedAt, failedWith,
                   printed, cmdsUsed, started, earlierFailed>>

\* Lines 103-106: the four statistics; the first library call that raises
\* ends the computation.
Statistics(ds) ==
    LET mn == min_(ds)
        mx == max_(ds)
        av == mean(ds)
        sd == IF UseStdev(ds) THEN stdev(ds) ELSE Ok(Zero)
    IN  CASE mn.exc # "" -> Raise(mn.exc, NoStats)
          [] mx.exc # "" -> Raise(mx.exc, NoStats)
          [] av.exc # "" -> Raise(av.exc, NoStats)
          [] sd.exc # "" -> Raise(sd.exc, NoStats)
          [] OTHER -> Ok([min_time |-> mn.val, max_time |-> mx.val,
                          avg_time |-> av.val, std_dev |-> sd.val])

\* Lines 98-106: the emptiness check, then the statistics.  An exception of
\* a library call is caught nowhere: traceback, exit code 1.
Measure_Statistics ==
    /\ pc = "report"
    /\ IF NoValidData(durations)
       THEN /\ printed' = [kind |-> "nodata", count |-> 0]
            /\ Return
            /\ UNCHANGED exit_code
       ELSE \E r \in {Statistics(durations)} :
               IF r.exc # ""
               THEN /\ pc' = "crashed"
                    /\ exit_code' = <<1>>
                    /\ UNCHANGED <<locals, printed>>
               ELSE /\ stats' = r.val
                    /\ pc' = "print"
                    /\ UNCHANGED <<exit_code, description, jvm_opts,
                                   base_command, i, durations, printed>>
    /\ UNCHANGED <<docker, cfg, launched, succ, failedAt, failedWith, waits,
                   slept, cmdsUsed, started, earlierFailed>>

\* Lines 108-116: the result block (count, min, max, mean, standard deviation
\* as held in the locals), the 5 second wait, the implicit return.
Measure_Print ==
    /\ pc = "print"
    /\ printed' = [kind |-> "stats", count |-> Len(durations)]
    /\ slept' = slept + 5
    /\ Return
    /\ UNCHANGED <<exit_code, docker, cfg, launched, succ, failedAt,
                   failedWith, waits, cmdsUsed, started, earlierFailed>>

\* ---------------------------------------------------------- specifications

Measure ==
    \/ Measure_Setup
    \/ Measure_Trial
    \/ Measure_Sleep
    \/ Measure_Statistics
    \/ Measure_Print

Next ==
    \/ Main_CheckDocker
    \/ Main_CallMeasure
    \/ Main_Finish
    \/ Measure_Setup
    \/ Measure_Trial
    \/ Measure_Sleep
    \/ Measure_Statistics
    \/ Measure_Print

\* The script as it runs.
Spec == Init /\ [][Next]_vars

\* The script is sequential and every call it makes blocks until it returns:
\* while a step is possible the script takes it.
FairSpec == Spec /\ WF_vars(Next)

\* measure_startup_time called once, with any of the argument values.
MeasureInit ==
    /\ pc = "entry"
    /\ exit_code = <<>>
    /\ docker = "ok"
    /\ cfg = 1
    /\ description \in DescriptionInputs
    /\ jvm_opts \in JvmOptsInputs
    /\ base_command = <<>>
    /\ i = 0
    /\ durations = <<>>
    /\ stats = NoStats
    /\ NoCall
    /\ started = <<>>
    /\ earlierFailed = FALSE

MeasureSpec == MeasureInit /\ [][Measure]_vars

\* The statistics reporter (lines 98-116) handed any list of durations, as
\* after a loop of Len(durations) successful trials.
DurationLists == UNION {[1..n -> Durations] : n \in 0..StatsMaxLen}

StatsNext ==
    \/ Measure_Statistics
    \/ Measure_Print

StatsInit ==
    /\ pc = "report"
    /\ exit_code = <<>>
    /\ docker = "ok"
    /\ cfg = 1
    /\ description = JVM_OPTIONS_SETS[1][2]
    /\ jvm_opts = JVM_OPTIONS_SETS[1][1]
    /\ base_command = BuildCommand(JVM_OPTIONS_SETS[1][1])
    /\ durations \in DurationLists
    /\ i = Len(durations)
    /\ stats = NoStats
    /\ launched = Len(durations)
    /\ succ = Len(durations)
    /\ failedAt = 0
    /\ failedWith = ""
    /\ waits = Len(durations)
    /\ slept = Len(durations)
    /\ printed = NoReport
    /\ cmdsUsed = IF durations = <<>> THEN {} ELSE {base_command}
    /\ started = IF durations = <<>> THEN <<>> ELSE <<1>>
    /\ earlierFailed = FALSE

StatsSpec == StatsInit /\ [][StatsNext]_vars

\* ------------------------------------------------------------------ claims

\* The latest call of measure_startup_time has returned.
CallReturned == cfg >= 1 /\ pc \in {"loop", "done"}

\* The frame of measure_startup_time is live, past its set-up.
InLoopOrReport == pc \in {"trial", "sleep", "report", "print"}

AvailabilityFailed == docker \in {"FileNotFoundError", "CalledProcessError"}

\* C1: once the availability check has failed (docker missing, or `docker
\* info` exiting non-zero) the process has ended with exit code 1, no step
\* follows, and no `docker run` was launched for any configuration.
T_C1 ==
    AvailabilityFailed =>
        /\ pc = "exit"
        /\ exit_code = <<1>>
        /\ ~ENABLED Next
        /\ cfg = 0
        /\ launched = 0
        /\ started = <<>>
        /\ cmdsUsed = {}

W_C1 == docker = "CalledProcessError" /\ exit_code = <<1>>

\* C2: within one configuration the number of trials launched is at most
\* NUM_RUNS, and once a trial has failed (non-zero exit or any other
\* exception) it is at most the index of that first failing trial: no further
\* trial of the configuration is launched.
T_C2 ==
    /\ launched <= NUM_RUNS
    /\ failedAt # 0 =>
          /\ launched <= failedAt
          /\ failedAt <= NUM_RUNS
          /\ pc \notin {"trial", "sleep", "report", "print"}

W_C2 ==
    /\ pc = "done"
    /\ failedWith = "Exception"
    /\ failedAt = 3
    /\ launched = 3

\* A bound on the number of steps the script has left: a call of
\* measure_startup_time is at most CallSpan steps long.
CallSpan == 2 * NUM_RUNS + 5

CallsLeft == Len(JVM_OPTIONS_SETS) - cfg

Rank ==
    CASE pc = "main"   -> CallsLeft * CallSpan + 2
      [] pc = "loop"   -> CallsLeft * CallSpan + 1
      [] pc = "entry"  -> CallsLeft * CallSpan + 2 * NUM_RUNS + 5
      [] pc = "trial"  -> CallsLeft * CallSpan + 2 * (NUM_RUNS - i) + 5
      [] pc = "sleep"  -> CallsLeft * CallSpan + 2 * (NUM_RUNS - i) + 4
      [] pc = "report" -> CallsLeft * CallSpan + 3
      [] pc = "print"  -> CallsLeft * CallSpan + 2
      [] OTHER         -> 0

\* Every step of the script lowers Rank, which is never negative: no run
\* goes on forever.
Terminates == [][Rank' < Rank]_vars /\ [](Rank >= 0)

\* Every configuration has launched its first trial.
AllStarted == Len(started) = Len(JVM_OPTIONS_SETS)

\* Configurations start in list order.
StartedInOrder == \A k \in 1..Len(started) : started[k] = k

\* The number of trials a returned call attempted is decided by its own
\* trials alone.
OwnTrialsOnly ==
    CallReturned =>
        launched = (IF failedAt = 0 THEN NUM_RUNS ELSE failedAt)

\* C3: a trial failure aborts only its configuration: with the runtime
\* available every configuration of JVM_OPTIONS_SETS is eventually started, in
\* list order, whatever the earlier trials did, and a configuration that
\* follows a failed one still attempts trials until its own first failure or
\* NUM_RUNS.
\* "Eventually": the script, which takes a step whenever one is possible
\* (FairSpec), cannot run forever and cannot stop before every configuration
\* has started.
T_C3 ==
    /\ [](StartedInOrder /\ OwnTrialsOnly)
    /\ Terminates
    /\ []((docker = "ok" /\ ~AllStarted) => ENABLED Next)

W_C3 ==
    /\ earlierFailed
    /\ cfg = Len(JVM_OPTIONS_SETS)
    /\ CallReturned
    /\ failedAt = 0
    /\ launched = NUM_RUNS
    /\ AllStarted

\* C4: the exit code is 1 exactly when the container runtime is unavailable;
\* with the runtime available the script never ends early, reaches the
\* completion message and exits with code 0, whatever the trials did.
\* "Runs to": every step lowers Rank, and with the runtime available a step
\* is possible in every state but the one after the completion message.
T_C4 ==
    /\ [](exit_code # <<>> => (exit_code = <<1>> <=> docker # "ok"))
    /\ [](docker = "ok" => pc \notin {"exit", "crashed"})
    /\ [](pc = "done" <=> exit_code = <<0>>)
    /\ [][Rank' < Rank]_vars
    /\ []((docker = "ok" /\ pc # "done") => ENABLED Next)

W_C4 ==
    /\ pc = "done"
    /\ exit_code = <<0>>
    /\ earlierFailed
    /\ failedWith = "Exception"

\* What min, max, mean and the sample variance are, stated apart from the way
\* the library computes them.
IsMin(m, xs) == m \in Range(xs) /\ \A x \in Range(xs) : m <= x

IsMax(m, xs) == m \in Range(xs) /\ \A x \in Range(xs) : m >= x

\* The deviations from the mean f[1] / f[2] add up to zero.
IsMean(f, xs) ==
    /\ f[2] > 0
    /\ Sum([k \in 1..Len(xs) |-> f[2] * xs[k] - f[1]]) = 0

\* f[1] / f[2] = (n * sum of squares - square of the sum) / (n * (n - 1)).
IsSampleVariance(f, xs) ==
    LET n  == Len(xs)
        S  == Sum(xs)
        Q  == Sum([k \in 1..n |-> xs[k] * xs[k]])
    IN  /\ n >= 2
        /\ f[2] > 0
        /\ f[1] * n * (n - 1) = f[2] * (n * Q - S * S)

StatsAreOf(st, xs) ==
    /\ IsMin(st.min_time, xs)
    /\ IsMax(st.max_time, xs)
    /\ IsMean(st.avg_time, xs)
    /\ IF Len(xs) >= 2 THEN IsSampleVariance(st.std_dev, xs)
                       ELSE st.std_dev = Zero

\* C5 as stated: whenever the collection is non-empty when the
\* configuration's trials end, its statistics are computed and printed.
CE_C5 == (CallReturned /\ succ > 0) => printed.kind = "stats"

\* C5 as amended: the statistics are computed over the durations of the
\* configuration's successful trials and printed exactly when all NUM_RUNS
\* trials succeeded; after a failed trial nothing is computed or printed,
\* whatever had been collected.
T_C5 ==
    /\ pc = "print" =>
          /\ Len(durations) = succ
          /\ succ = NUM_RUNS
          /\ failedAt = 0
          /\ StatsAreOf(stats, durations)
    /\ CallReturned => (printed.kind = "stats" <=> (succ = NUM_RUNS /\ failedAt = 0))
    /\ printed.kind = "stats" => printed.count = succ
    /\ failedAt # 0 => (pc \notin {"report", "print"} /\ printed.kind = "none")

W_C5 ==
    /\ pc = "print"
    /\ stats.min_time < stats.max_time
    /\ stats.std_dev[1] > 0

\* C6: the statistics are never computed on an empty list (no library call
\* raises, and where they have been computed the list holds a duration); on
\* an empty list the function reports that there is no valid data and
\* returns with nothing computed.
T_C6 ==
    /\ pc # "crashed"
    /\ pc = "print" => Len(durations) >= 1
    /\ printed.kind = "nodata" => (succ = 0 /\ pc = "loop" /\ stats = NoStats)
    /\ (pc = "loop" /\ succ = 0) => printed.kind = "nodata"

W_C6 == printed.kind = "nodata" /\ pc = "loop" /\ exit_code = <<>>

\* C7: the reported standard deviation is 0.0 for exactly one duration and
\* the sample standard deviation for two or more; statistics.stdev is never
\* called with fewer than two samples (it would raise).
T_C7 ==
    /\ pc # "crashed"
    /\ pc = "print" =>
          /\ Len(durations) = 1 => stats.std_dev = Zero
          /\ Len(durations) >= 2 => IsSampleVariance(stats.std_dev, durations)

W_C7 == pc = "print" /\ Len(durations) = 1 /\ stats.std_dev = Zero

\* The command of the claim, position by position.
ExpectedCommand(opts) ==
    IF opts.isNone \/ opts.val = ""
    THEN <<"docker", "run", "--rm", "-i",
           LOGSTASH_DOCKER_IMAGE, "-e", LOGSTASH_PIPELINE_CONFIG>>
    ELSE <<"docker", "run", "--rm", "-i", "-e", "LS_JAVA_OPTS=" \o opts.val,
           LOGSTASH_DOCKER_IMAGE, "-e", LOGSTASH_PIPELINE_CONFIG>>

HasEnvPair(cmd) ==
    \E k \in 1..(Len(cmd) - 1) :
        /\ cmd[k] = "-e"
        /\ cmd[k + 1] \in {"LS_JAVA_OPTS=" \o o.val : o \in JvmOptsInputs}

\* C8: the command holds the pair ('-e', 'LS_JAVA_OPTS=<opts>') exactly when
\* the options are neither None nor empty; it is docker run --rm -i, the
\* optional pair, the image, -e and the pipeline; and every trial of the
\* call is launched with that same command.
T_C8 ==
    /\ InLoopOrReport =>
          /\ base_command = ExpectedCommand(jvm_opts)
          /\ HasEnvPair(base_command) <=> (~jvm_opts.isNone /\ jvm_opts.val # "")
          /\ cmdsUsed \subseteq {base_command}
          /\ launched > 0 => cmdsUsed = {base_command}
    /\ Cardinality(cmdsUsed) <= 1

W_C8 ==
    /\ jvm_opts = Str("")
    /\ launched = NUM_RUNS
    /\ pc = "print"
    /\ Len(base_command) = 7
    /\ cmdsUsed = {base_command}

\* C9: trial i + 1 is launched only after trial i succeeded and the 1 second
\* wait that follows it was performed; no wait follows a failed trial; the
\* only other sleep is the 5 seconds after a printed report.
T_C9 ==
    /\ [][launched' = launched + 1 =>
             (succ = launched /\ waits = launched /\ failedAt = 0
              /\ slept = launched)]_vars
    /\ [](pc = "trial" => (i = launched + 1 /\ waits = launched))
    /\ [](launched > 0 => waits \in {launched - 1, launched})
    /\ [](failedAt # 0 => (waits = failedAt - 1 /\ slept = waits))
    /\ [](slept = waits + (IF printed.kind = "stats" THEN 5 ELSE 0))

W_C9 ==
    /\ pc = "trial"
    /\ launched = 2
    /\ waits = 2
    /\ slept = 2
    /\ earlierFailed

\* C10: the duration list starts empty for each configuration and its length
\* is the number of successful trials of the configuration so far; statistics
\* are printed only after NUM_RUNS successful trials, the printed count is
\* NUM_RUNS, durations collected before a failing trial are never reported,
\* and the 'no valid data' branch is never taken.
T_C10 ==
    /\ InLoopOrReport => Len(durations) = succ
    /\ (pc = "trial" /\ i = 1) => durations = <<>>
    /\ printed.kind = "stats" =>
          /\ succ = NUM_RUNS
          /\ failedAt = 0
          /\ printed.count = NUM_RUNS
    /\ failedAt # 0 => (printed.kind = "none" /\ pc \notin {"report", "print"})
    /\ printed.kind # "nodata"

W_C10 ==
    /\ earlierFailed
    /\ printed.kind = "stats"
    /\ printed.count = NUM_RUNS
    /\ pc = "done"

====
